---- MODULE Spec2Model ----
(***************************************************************************)
(* Model of the page-object layer of the Playwright UI framework template: *)
(* the BasePage.retry decorator (pages/base_page.py), the page methods it  *)
(* wraps, and the pytest fixtures that own browser, context and page       *)
(* (conftest.py).                                                          *)
(*                                                                         *)
(* Python calls are modelled as a call stack of frames.  A frame of a      *)
(* method decorated with @retry() walks through the wrapper's loop         *)
(* ("loop" -> "body" -> "except" -> "sleep" -> "loop"); a frame of an      *)
(* undecorated method only has a body.  Calls into the Playwright library  *)
(* either return or raise, chosen nondeterministically.  Delays are in     *)
(* whole seconds (base_delay = 1.0 is 1).                                  *)
(***************************************************************************)
EXTENDS Integers, Sequences, FiniteSets, TLC

\* Largest retries argument and largest base_delay tried for the generic
\* decorated action.
MaxRetries == 3
MaxBaseDelay == 2

\* Defaults of BasePage.retry(retries=3, base_delay=1.0).
DefaultRetries == 3
DefaultBaseDelay == 1

VARIABLES
    entry,          \* the method the test calls
    retries,        \* decorator argument of the generic action
    base_delay,     \* decorator argument of the generic action
    url,            \* BasePage.url (base_url; "" when --target is not given)
    path,           \* argument of navigate
    wait_strategy,  \* --wait-strategy, stored on the page by the page fixture
    login_remember_me, \* the remember_me argument of LoginPage.login
    stack,          \* call stack, innermost frame last
    trace,          \* effects so far: attempts, sleeps, library calls
    log,            \* records written to self.logger
    outcome,        \* what reached the test: nothing yet, a value or an error
    remember_me,    \* whether the #user_remember_me checkbox is checked
    browser_type,   \* --browser-type
    selenoid_url,   \* --selenoid-url as path segments; << >> when not given
    browser_version,\* --browser-version
    phase,          \* where the pytest session is
    launcher,       \* browser_launcher chosen by browser_context
    browser_name,   \* Selenoid browser name chosen by browser_context
    endpoint,       \* CDP endpoint handed to connect_over_cdp
    browser,        \* the session's browser
    context,        \* the session's browser context
    storage,        \* cookies / storage held by the context
    pages,          \* every page created so far, in order
    fixture_events, \* library calls made by the fixtures, in order
    root_logger,    \* logging.getLogger(): level, handlers, what configure did
    configure_calls,\* the calls of configure_logging so far, with their effect
    files,          \* what the test_data directory holds under each filename
    loads           \* the calls of load_json / load_yaml / load_csv so far

vars == <<entry, retries, base_delay, url, path, wait_strategy,
          login_remember_me,
          stack, trace, log, outcome, remember_me,
          browser_type, selenoid_url, browser_version, phase, launcher,
          browser_name, endpoint, browser, context, storage, pages,
          fixture_events, root_logger, configure_calls, files, loads>>

\* How many tests a session runs at most.
MaxTests == 3
\* How many library calls fail at most during one call of LoginPage.login.
MaxLoginFailures == 3

None == "None"
NoExc == [type |-> "none", src |-> "none", at |-> 0]
NoOutcome == [kind |-> "none", val |-> None, exc |-> NoExc]

WaitStrategies == {"networkidle", "domcontentloaded", "load", "commit"}
BaseUrls == {"", "http://app"}
Paths == {"", "/p"}
\* What the generic function can return; a function may also return None.
Results == {"r1", "r2", None}
ActionErrors == {"E1", "E2"}

RECURSIVE Pow2(_)
Pow2(n) == IF n <= 0 THEN 1 ELSE 2 * Pow2(n - 1)

\* delay = base_delay * (2 ** (attempt - 1))
BackoffFromAttempt(bd, attempt) == bd * Pow2(attempt)
Backoff(bd, attempt) == bd * Pow2(attempt - 1)

\* for attempt in range(1, retries + 1): attempt is still in the range
InRangeOffByOne(attempt, n) == attempt < n
InRangeAtLeastOnce(attempt, n) == attempt = 1 \/ attempt <= n
InRange(attempt, n) == attempt <= n

\* if attempt < retries: another attempt follows this failure
HasNextAttemptInclusive(attempt, n) == attempt <= n
HasNextAttempt(attempt, n) == attempt < n

\* return func(self, *args, **kwargs): the wrapper hands the result through
WrapperResultDropped(v) == None
WrapperResult(v) == v

\* the bare raise in the except block re-raises the caught exception itself
ReraisedWrapped(e) == [type |-> "RetryExhausted", src |-> e.src, at |-> e.at]
Reraised(e) == e

\* urljoin(base, url) for a base without a path and an absolute or empty path.
urljoin(base, p) == IF p = "" THEN base ELSE base \o p

\* full_url = urljoin(base=self.url, url=path) if self.url else path
FullUrl(u, p) == IF u # "" THEN urljoin(u, p) ELSE p

Instr(op, name, arg) == [op |-> op, name |-> name, arg |-> arg]

\* The argument of a library call that is made on self.locator(selector):
\* it stands for the selector the method was called with.
Selector == "selector"

\* LoginPage's element selectors
email_field == "#user_email"
password_field == "#user_password"
signin_button == "input[value='Sign in']"
remember_checkbox == "#user_remember_me"

\* The methods of BasePage that carry @retry(), and the generic decorated
\* function.
DecoratedMethods ==
    {"action", "wait_until_loaded", "navigate",
     "click_element_and_wait_for_navigation", "click_element", "fill_text",
     "get_text", "is_visible", "is_enabled", "is_checked", "wait_for_element",
     "wait_for_element_hidden", "get_element_attribute", "select_option",
     "hover_element", "double_click_element", "right_click_element",
     "press_key", "clear_and_fill", "get_element_count", "take_screenshot"}

\* The methods that carry no decorator: BasePage.back / forward / refresh and
\* expect_*, and the methods of the page objects.
UndecoratedMethods ==
    {"back", "forward", "refresh", "expect_visible", "expect_hidden",
     "expect_text", "expect_value", "expect_attribute", "expect_count",
     "search_content", "toggle_remember_me", "get_error_message",
     "input_email", "input_password", "click_submit", "login"}

\* Whether calling fn enters the wrapper of retry.
WrappedAll(fn) == TRUE
WrappedExceptWait(fn) == fn \in DecoratedMethods \ {"wait_until_loaded"}
Wrapped(fn) == fn \in DecoratedMethods

\* The generic decorated function: it returns a value or raises.
action == << Instr("prim", "func", ""), Instr("return", "", "") >>

wait_until_loaded ==
    << Instr("log", "Waiting for navigation to complete", ""),
       Instr("prim", "wait_for_load_state", "domcontentloaded"),
       Instr("prim", "wait_for_load_state", "networkidle"),
       Instr("log", "Page is loaded and ready.", "") >>

navigate ==
    << Instr("full_url", "", ""),
       Instr("log", "Navigating to", ""),
       Instr("prim", "goto", ""),
       Instr("call", "wait_until_loaded", "") >>

click_element_and_wait_for_navigation ==
    << Instr("log", "Clicking element that triggers navigation", ""),
       Instr("prim", "click", Selector),
       Instr("prim", "expect_navigation", ""),
       Instr("call", "wait_until_loaded", ""),
       Instr("log", "Page loaded after clicking element", "") >>

back == << Instr("prim", "go_back", ""), Instr("return_const", "", "self") >>
forward == << Instr("prim", "go_forward", ""), Instr("return_const", "", "self") >>
refresh == << Instr("prim", "reload", ""), Instr("return_const", "", "self") >>

click_element ==
    << Instr("log", "Clicking element", ""), Instr("prim", "click", Selector) >>
fill_text ==
    << Instr("log", "Filling text into element", ""),
       Instr("prim", "fill", Selector) >>
get_text ==
    << Instr("log", "Getting text from element", ""),
       Instr("prim", "text_content", ""),
       Instr("or_empty", "", ""),
       Instr("return", "", "") >>
is_visible == << Instr("prim", "is_visible", ""), Instr("return", "", "") >>
is_enabled == << Instr("prim", "is_enabled", ""), Instr("return", "", "") >>
is_checked ==
    << Instr("prim", "is_checked", Selector), Instr("return", "", "") >>
wait_for_element ==
    << Instr("log", "Waiting for element", ""),
       Instr("prim", "wait_for", "visible") >>
wait_for_element_hidden ==
    << Instr("log", "Waiting for element to be hidden", ""),
       Instr("prim", "wait_for", "hidden") >>
get_element_attribute ==
    << Instr("log", "Getting attribute from element", ""),
       Instr("prim", "get_attribute", ""),
       Instr("return", "", "") >>
select_option ==
    << Instr("log", "Selecting option in dropdown", ""),
       Instr("prim", "select_option", "") >>
hover_element ==
    << Instr("log", "Hovering over element", ""), Instr("prim", "hover", "") >>
double_click_element ==
    << Instr("log", "Double clicking element", ""),
       Instr("prim", "dblclick", "") >>
right_click_element ==
    << Instr("log", "Right clicking element", ""),
       Instr("prim", "click", "right") >>
press_key ==
    << Instr("log", "Pressing key on element", ""), Instr("prim", "press", "") >>
clear_and_fill ==
    << Instr("log", "Clearing and filling element", ""),
       Instr("prim", "clear", ""),
       Instr("prim", "fill", "") >>
get_element_count == << Instr("prim", "count", ""), Instr("return", "", "") >>
take_screenshot == << Instr("prim", "screenshot", "") >>

expect_visible == << Instr("prim", "to_be_visible", "") >>
expect_hidden == << Instr("prim", "to_be_hidden", "") >>
expect_text == << Instr("prim", "to_contain_text", "") >>
expect_value == << Instr("prim", "to_have_value", "") >>
expect_attribute == << Instr("prim", "to_have_attribute", "") >>
expect_count == << Instr("prim", "to_have_count", "") >>

\* HomePage.search_content
search_content ==
    << Instr("log", "Searching for content", ""),
       Instr("prim", "fill", ""),
       Instr("prim", "press", "Enter"),
       Instr("call", "wait_until_loaded", "") >>

\* LoginPage.toggle_remember_me: if not self.is_checked(...): self.click_element(...)
toggle_remember_me ==
    << Instr("log", "Toggling remember-me checkbox", ""),
       Instr("call", "is_checked", remember_checkbox),
       Instr("branch", "if_true", 5),
       Instr("call", "click_element", remember_checkbox) >>

\* LoginPage.input_email / input_password / click_submit
input_email ==
    << Instr("log", "Filling in email field", ""),
       Instr("call", "fill_text", email_field) >>
input_password ==
    << Instr("log", "Filling in password field", ""),
       Instr("call", "fill_text", password_field) >>
click_submit ==
    << Instr("log", "Clicking submit button", ""),
       Instr("call", "click_element_and_wait_for_navigation", signin_button) >>

\* LoginPage.login
login_password_first ==
    << Instr("call", "navigate", ""),
       Instr("call", "input_password", ""),
       Instr("call", "input_email", ""),
       Instr("param", "remember_me", ""),
       Instr("branch", "if_false", 7),
       Instr("call", "toggle_remember_me", ""),
       Instr("call", "click_submit", "") >>
login ==
    << Instr("call", "navigate", ""),
       Instr("call", "input_email", ""),
       Instr("call", "input_password", ""),
       Instr("param", "remember_me", ""),
       Instr("branch", "if_false", 7),
       Instr("call", "toggle_remember_me", ""),
       Instr("call", "click_submit", "") >>

\* LoginPage.get_error_message
get_error_message ==
    << Instr("call", "is_visible", ""),
       Instr("branch", "if_false", 5),
       Instr("call", "get_text", ""),
       Instr("return", "", ""),
       Instr("return_const", "", "") >>

Body(fn) ==
    CASE fn = "action" -> action
      [] fn = "wait_until_loaded" -> wait_until_loaded
      [] fn = "navigate" -> navigate
      [] fn = "click_element_and_wait_for_navigation" ->
            click_element_and_wait_for_navigation
      [] fn = "back" -> back
      [] fn = "forward" -> forward
      [] fn = "refresh" -> refresh
      [] fn = "click_element" -> click_element
      [] fn = "fill_text" -> fill_text
      [] fn = "get_text" -> get_text
      [] fn = "is_visible" -> is_visible
      [] fn = "is_enabled" -> is_enabled
      [] fn = "is_checked" -> is_checked
      [] fn = "wait_for_element" -> wait_for_element
      [] fn = "wait_for_element_hidden" -> wait_for_element_hidden
      [] fn = "get_element_attribute" -> get_element_attribute
      [] fn = "select_option" -> select_option
      [] fn = "hover_element" -> hover_element
      [] fn = "double_click_element" -> double_click_element
      [] fn = "right_click_element" -> right_click_element
      [] fn = "press_key" -> press_key
      [] fn = "clear_and_fill" -> clear_and_fill
      [] fn = "get_element_count" -> get_element_count
      [] fn = "take_screenshot" -> take_screenshot
      [] fn = "expect_visible" -> expect_visible
      [] fn = "expect_hidden" -> expect_hidden
      [] fn = "expect_text" -> expect_text
      [] fn = "expect_value" -> expect_value
      [] fn = "expect_attribute" -> expect_attribute
      [] fn = "expect_count" -> expect_count
      [] fn = "search_content" -> search_content
      [] fn = "toggle_remember_me" -> toggle_remember_me
      [] fn = "get_error_message" -> get_error_message
      [] fn = "input_email" -> input_email
      [] fn = "input_password" -> input_password
      [] fn = "click_submit" -> click_submit
      [] fn = "login" -> login

\* The arguments the decorator of fn was applied with.
Retries(fn) == IF fn = "action" THEN retries ELSE DefaultRetries
BaseDelay(fn) == IF fn = "action" THEN base_delay ELSE DefaultBaseDelay

\* What a library call can return and raise.
Booleans == {"True", "False"}
ExpectCalls == {"to_be_visible", "to_be_hidden", "to_contain_text",
                "to_have_value", "to_have_attribute", "to_have_count"}
PrimValues(name) ==
    CASE name = "func" -> Results
      [] name \in {"is_visible", "is_enabled"} -> Booleans
      [] name = "is_checked" -> {IF remember_me THEN "True" ELSE "False"}
      [] name = "text_content" -> {None, "Invalid email or password."}
      [] name = "get_attribute" -> {None, "logo.png"}
      [] name = "count" -> {"0", "2"}
      [] OTHER -> {None}
PrimErrors(name) ==
    CASE name = "func" -> ActionErrors
      [] name \in ExpectCalls -> {"AssertionError"}
      [] OTHER -> {"TimeoutError"}

\* bool(v) of a returned value
Truthy(v) == v \notin {"False", None, "", "0"}

\* <value> or ""
OrEmptyIdentity(v) == v
OrEmpty(v) == IF Truthy(v) THEN v ELSE ""

\* What a click that went through does to the remember-me checkbox.
ClickEffect(name, selector, checked) ==
    IF name = "click" /\ selector = remember_checkbox THEN ~checked ELSE checked

NewFrame(fn) ==
    [fn |-> fn, pc |-> IF Wrapped(fn) THEN "loop" ELSE "body",
     ip |-> 1, attempt |-> 1, val |-> None, exc |-> NoExc, delay |-> 0,
     selector |-> ""]

\* self.logger.warning(f"Attempt {attempt} failed: {e}")
AttemptFailedNamed(fn, n, e) ==
    [level |-> "warning", msg |-> "Attempt failed", name |-> fn, n |-> n, exc |-> e]
AttemptFailed(fn, n, e) ==
    [level |-> "warning", msg |-> "Attempt failed", name |-> "", n |-> n, exc |-> e]

Event(ev, name, arg, n, v) ==
    [ev |-> ev, name |-> name, arg |-> arg, n |-> n, val |-> v]
LogRec(level, msg, name, n, e) ==
    [level |-> level, msg |-> msg, name |-> name, n |-> n, exc |-> e]

Top == stack[Len(stack)]
Running == stack # << >>
AtInstr(op) ==
    /\ Running
    /\ Top.pc = "body"
    /\ Top.ip <= Len(Body(Top.fn))
    /\ Body(Top.fn)[Top.ip].op = op
Cur == Body(Top.fn)[Top.ip]
\* the argument the library call at the current instruction is made with
PrimArg == IF Cur.arg = Selector THEN Top.selector ELSE Cur.arg
IsFail(e) == e.ev = "fail"
\* whether one more library call of this run may fail
MayFail == entry = "login" => Len(SelectSeq(trace, IsFail)) < MaxLoginFailures
Pop(stk) == SubSeq(stk, 1, Len(stk) - 1)
SetTop(stk, f) == [stk EXCEPT ![Len(stk)] = f]

\* What is raised into a running call from outside it: Ctrl-C, or the exit of
\* the interpreter. Neither derives from Exception.
Cancellations == {"KeyboardInterrupt"}

\* except Exception as e: whether the clause catches e
CatchesAll(e) == TRUE
Catches(e) == e.type \notin Cancellations

\* An exception leaves the frames in stk that do not catch it: the wrapper of
\* a decorated method catches it while it runs the try block (except
\* Exception), any other frame is left.
RECURSIVE Deliver(_, _)
Deliver(stk, e) ==
    IF stk = << >> THEN << >>
    ELSE IF Wrapped(stk[Len(stk)].fn) /\ stk[Len(stk)].pc = "body" /\ Catches(e)
         THEN SetTop(stk, [stk[Len(stk)] EXCEPT !.pc = "except", !.exc = e])
         ELSE Deliver(Pop(stk), e)

\* The innermost frame raises e out of its body.
RaiseInBody(e) ==
    /\ stack' = Deliver(stack, e)
    /\ outcome' = IF stack' = << >>
                  THEN [kind |-> "raised", val |-> None, exc |-> e]
                  ELSE outcome

\* The innermost frame returns v to its caller.
ReturnValue(v) ==
    /\ stack' = IF Len(stack) = 1 THEN << >>
                ELSE SetTop(Pop(stack),
                            [stack[Len(stack) - 1] EXCEPT
                                !.val = v, !.ip = @ + 1])
    /\ outcome' = IF Len(stack) = 1
                  THEN [kind |-> "returned", val |-> v, exc |-> NoExc]
                  ELSE outcome

Util == <<root_logger, configure_calls, files, loads>>
PageConfig == <<entry, retries, base_delay, url, path, wait_strategy,
               login_remember_me>>
\* What no step of a page method and no fixture changes.
Config == <<PageConfig, Util>>
Session == <<browser_type, selenoid_url, browser_version, phase, launcher,
             browser_name, endpoint, browser, context, storage, pages,
             fixture_events>>
Exec == <<stack, trace, log, outcome, remember_me>>

NoBrowser == [state |-> "none", via |-> "none", channel |-> "none"]
NoContext == [state |-> "none", record_video |-> FALSE]

NoHandlers == << >>
UnconfiguredRoot ==
    [level |-> "WARNING", handlers |-> NoHandlers, captureWarnings |-> FALSE,
     logs_dir |-> FALSE]

\* Neither configure_logging nor a data loader is called.
IdleUtil ==
    /\ root_logger = UnconfiguredRoot
    /\ configure_calls = << >>
    /\ files = << >>
    /\ loads = << >>

\* No pytest session is modelled while a page method runs.
IdleSession ==
    /\ browser_type = "chromium"
    /\ selenoid_url = << >>
    /\ browser_version = "latest"
    /\ phase = "idle"
    /\ launcher = "none"
    /\ browser_name = "none"
    /\ endpoint = << >>
    /\ browser = NoBrowser
    /\ context = NoContext
    /\ storage = {}
    /\ pages = << >>
    /\ fixture_events = << >>

\* The calls a test makes on a page object.
Entries == (DecoratedMethods \ {"wait_until_loaded"}) \cup UndecoratedMethods

Init ==
    /\ entry \in Entries
    /\ IF entry = "action"
       THEN /\ retries \in -1 .. MaxRetries
            /\ base_delay \in 0 .. MaxBaseDelay
       ELSE /\ retries = DefaultRetries
            /\ base_delay = DefaultBaseDelay
    /\ IF entry = "navigate"
       THEN url \in BaseUrls /\ path \in Paths
       ELSE url = "http://app" /\ path = ""
    /\ IF entry \in {"navigate", "click_element_and_wait_for_navigation"}
       THEN wait_strategy \in WaitStrategies
       ELSE wait_strategy = "networkidle"
    /\ stack = << NewFrame(entry) >>
    /\ trace = << >>
    /\ log = << >>
    /\ outcome = NoOutcome
    /\ IF entry \in {"toggle_remember_me", "login"}
       THEN remember_me \in BOOLEAN
       ELSE remember_me = FALSE
    /\ IF entry = "login"
       THEN login_remember_me \in BOOLEAN
       ELSE login_remember_me = FALSE
    /\ IdleSession
    /\ IdleUtil

\* for attempt in range(1, retries + 1): log "Attempt n for action" and call func
LoopEnter ==
    /\ Running
    /\ Top.pc = "loop"
    /\ InRange(Top.attempt, Retries(Top.fn))
    /\ stack' = SetTop(stack, [Top EXCEPT !.pc = "body", !.ip = 1])
    /\ log' = Append(log, LogRec("info", "Attempt", Top.fn, Top.attempt, NoExc))
    /\ trace' = Append(trace, Event("attempt", Top.fn, "", Top.attempt, None))
    /\ UNCHANGED <<Config, Session, remember_me, outcome>>

\* range(1, retries + 1) is empty or used up: the wrapper falls off its end
LoopExit ==
    /\ Running
    /\ Top.pc = "loop"
    /\ ~InRange(Top.attempt, Retries(Top.fn))
    /\ ReturnValue(None)
    /\ UNCHANGED <<Config, Session, remember_me, trace, log>>

\* self.logger.info(...) in a method body
StepLog ==
    /\ AtInstr("log")
    /\ log' = Append(log, LogRec("info", Cur.name, Top.fn, 0, NoExc))
    /\ stack' = SetTop(stack, [Top EXCEPT !.ip = @ + 1])
    /\ UNCHANGED <<Config, Session, remember_me, trace, outcome>>

\* a library call (or the generic function) returns
StepPrimOk ==
    /\ AtInstr("prim")
    /\ \E v \in PrimValues(Cur.name) :
          /\ stack' = SetTop(stack, [Top EXCEPT !.val = v, !.ip = @ + 1])
          /\ trace' = Append(trace, Event("ok", Cur.name, PrimArg, 0, v))
    /\ remember_me' = ClickEffect(Cur.name, PrimArg, remember_me)
    /\ UNCHANGED <<Config, Session, log, outcome>>

\* a library call (or the generic function) raises
StepPrimFail ==
    /\ AtInstr("prim")
    /\ MayFail
    /\ \E t \in PrimErrors(Cur.name) :
          /\ trace' = Append(trace, Event("fail", Cur.name, PrimArg, 0, t))
          /\ RaiseInBody([type |-> t, src |-> Cur.name, at |-> Len(trace) + 1])
    /\ UNCHANGED <<Config, Session, remember_me, log>>

\* self.<method>() inside a method body
StepCall ==
    /\ AtInstr("call")
    /\ stack' = Append(stack, [NewFrame(Cur.name) EXCEPT !.selector = Cur.arg])
    /\ UNCHANGED <<Config, Session, remember_me, trace, log, outcome>>

\* navigate: compute full_url and raise ValueError when it is empty
StepFullUrl ==
    /\ AtInstr("full_url")
    /\ IF FullUrl(url, path) = ""
       THEN /\ trace' = Append(trace, Event("fail", "full_url", "", 0, "ValueError"))
            /\ RaiseInBody([type |-> "ValueError", src |-> "full_url",
                            at |-> Len(trace) + 1])
       ELSE /\ stack' = SetTop(stack, [Top EXCEPT !.ip = @ + 1])
            /\ UNCHANGED <<trace, outcome>>
    /\ UNCHANGED <<Config, Session, remember_me, log>>

\* return <value>, or the end of a method body (returns None)
StepReturn ==
    /\ Running
    /\ Top.pc = "body"
    /\ \/ /\ Top.ip > Len(Body(Top.fn))
          /\ ReturnValue(None)
       \/ /\ AtInstr("return")
          /\ ReturnValue(IF Wrapped(Top.fn) THEN WrapperResult(Top.val)
                         ELSE Top.val)
    /\ UNCHANGED <<Config, Session, remember_me, trace, log>>

\* <value> or "" applied to the value just obtained
StepOrEmpty ==
    /\ AtInstr("or_empty")
    /\ stack' = SetTop(stack, [Top EXCEPT !.val = OrEmpty(@), !.ip = @ + 1])
    /\ UNCHANGED <<Config, Session, remember_me, trace, log, outcome>>

\* if <value>: / if not <value>: skip to the instruction after the block
StepBranch ==
    /\ AtInstr("branch")
    /\ LET skip == IF Cur.name = "if_true" THEN Truthy(Top.val)
                   ELSE ~Truthy(Top.val)
       IN stack' = SetTop(stack, [Top EXCEPT
                                    !.ip = IF skip THEN Cur.arg ELSE @ + 1])
    /\ UNCHANGED <<Config, Session, remember_me, trace, log, outcome>>

\* if remember_me: the value of login's parameter
StepParam ==
    /\ AtInstr("param")
    /\ stack' = SetTop(stack, [Top EXCEPT
                                !.val = IF login_remember_me THEN "True"
                                        ELSE "False",
                                !.ip = @ + 1])
    /\ UNCHANGED <<Config, Session, remember_me, trace, log, outcome>>

\* return self / return ""
StepReturnConst ==
    /\ AtInstr("return_const")
    /\ ReturnValue(IF Wrapped(Top.fn) THEN WrapperResult(Cur.arg) ELSE Cur.arg)
    /\ UNCHANGED <<Config, Session, remember_me, trace, log>>

\* except Exception as e, attempt < retries: log, compute delay
ExceptRetry ==
    /\ Running
    /\ Top.pc = "except"
    /\ HasNextAttempt(Top.attempt, Retries(Top.fn))
    /\ LET d == Backoff(BaseDelay(Top.fn), Top.attempt) IN
          /\ stack' = SetTop(stack, [Top EXCEPT !.pc = "sleep", !.delay = d])
          /\ log' = log \o
                << AttemptFailed(Top.fn, Top.attempt, Top.exc),
                   LogRec("info", "Retrying action", Top.fn, d, NoExc) >>
    /\ UNCHANGED <<Config, Session, remember_me, trace, outcome>>

\* time.sleep(delay), then the next iteration of the loop
Sleep ==
    /\ Running
    /\ Top.pc = "sleep"
    /\ trace' = Append(trace, Event("sleep", Top.fn, "", Top.delay, None))
    /\ stack' = SetTop(stack, [Top EXCEPT !.pc = "loop", !.attempt = @ + 1,
                                          !.exc = NoExc])
    /\ UNCHANGED <<Config, Session, remember_me, log, outcome>>

\* except Exception as e, last attempt: log the error and re-raise e
ExceptRaise ==
    /\ Running
    /\ Top.pc = "except"
    /\ ~HasNextAttempt(Top.attempt, Retries(Top.fn))
    /\ log' = log \o
          << AttemptFailed(Top.fn, Top.attempt, Top.exc),
             LogRec("error", "Action failed after attempts", Top.fn,
                    Retries(Top.fn), NoExc) >>
    /\ stack' = Deliver(Pop(stack), Reraised(Top.exc))
    /\ outcome' = IF stack' = << >>
                  THEN [kind |-> "raised", val |-> None,
                        exc |-> Reraised(Top.exc)]
                  ELSE outcome
    /\ UNCHANGED <<Config, Session, remember_me, trace>>

Next ==
    \/ LoopEnter
    \/ LoopExit
    \/ StepLog
    \/ StepPrimOk
    \/ StepPrimFail
    \/ StepCall
    \/ StepFullUrl
    \/ StepReturn
    \/ StepOrEmpty
    \/ StepBranch
    \/ StepParam
    \/ StepReturnConst
    \/ ExceptRetry
    \/ Sleep
    \/ ExceptRaise

Spec == Init /\ [][Next]_vars

\* A cancellation is raised in the innermost frame, wherever the call is:
\* inside an attempt, inside the except block or inside time.sleep.
Cancel ==
    /\ Running
    /\ \E t \in Cancellations :
          /\ trace' = Append(trace, Event("cancel", Top.fn, Top.pc, Top.attempt, t))
          /\ RaiseInBody([type |-> t, src |-> "host", at |-> Len(trace) + 1])
    /\ UNCHANGED <<Config, Session, remember_me, log>>

CancelNext ==
    \/ Next
    \/ Cancel

\* The page methods, run by a host that may cancel them.
CancelSpec == Init /\ [][CancelNext]_vars

(***************************************************************************)
(* The pytest session: conftest.py's browser_context (session scope) and   *)
(* page (function scope) fixtures, and the tests that run between them.    *)
(***************************************************************************)
BrowserTypes == {"chromium", "firefox", "webkit", "edge"}
SelenoidUrls == {<< >>, <<"http://localhost:4444", "wd", "hub">>}
BrowserVersions == {"latest", "120.0"}
CookieNames == {"session_id", "remember_token"}

\* page.set_default_timeout(15000)
DefaultTimeoutMs == 15000

\* browser_launcher = {...}.get(browser_type, playwright.chromium)
BrowserLauncher(bt) ==
    CASE bt = "firefox" -> "firefox"
      [] bt = "webkit" -> "webkit"
      [] bt = "edge" -> "chromium"
      [] bt = "chromium" -> "chromium"
      [] OTHER -> "chromium"

\* browser_name = {...}.get(browser_type, "chrome")
SelenoidBrowserName(bt) ==
    CASE bt = "chromium" -> "chrome"
      [] bt = "firefox" -> "firefox"
      [] bt = "webkit" -> "chrome"
      [] bt = "edge" -> "edge"
      [] OTHER -> "chrome"

\* selenoid_url.replace('/wd/hub', ''): every occurrence of the two
\* segments wd, hub is dropped
RECURSIVE StripWdHub(_)
StripWdHub(u) ==
    IF Len(u) < 2 THEN u
    ELSE IF u[1] = "wd" /\ u[2] = "hub" THEN StripWdHub(SubSeq(u, 3, Len(u)))
    ELSE <<u[1]>> \o StripWdHub(Tail(u))

\* f"{selenoid_url.replace('/wd/hub', '')}/devtools/{browser_name}/{browser_version}/"
CdpEndpoint(u, name, version) ==
    StripWdHub(u) \o <<"devtools", name, version, "">>

FixtureEvent(call, on) == [call |-> call, on |-> on]

\* if selenoid_url: connect to the grid, else: launch locally
AcquireViaLaunchOnly(u) == "launch"
AcquireVia(u) == IF u # << >> THEN "connect_over_cdp" ELSE "launch"

\* page.close() in the page fixture's teardown
ClosePageSkipped(p) == p
ClosePage(p) == [p EXCEPT !.state = "closed"]

\* browser_context.new_page(): the page belongs to the session's context
\* and starts with whatever that context already holds
NewPage(id, strategy) ==
    [id |-> id, state |-> "open", inherited |-> storage,
     default_timeout |-> DefaultTimeoutMs, default_wait_strategy |-> strategy]

SessionInit ==
    /\ browser_type \in BrowserTypes
    /\ selenoid_url \in SelenoidUrls
    /\ browser_version \in BrowserVersions
    /\ wait_strategy \in WaitStrategies
    /\ phase = "start"
    /\ launcher = "none"
    /\ browser_name = "none"
    /\ endpoint = << >>
    /\ browser = NoBrowser
    /\ context = NoContext
    /\ storage = {}
    /\ pages = << >>
    /\ fixture_events = << >>
    /\ entry = "none"
    /\ retries = DefaultRetries
    /\ base_delay = DefaultBaseDelay
    /\ url = "http://app"
    /\ path = ""
    /\ stack = << >>
    /\ trace = << >>
    /\ log = << >>
    /\ outcome = NoOutcome
    /\ remember_me = FALSE
    /\ login_remember_me = FALSE
    /\ IdleUtil

\* browser_context up to its yield, through a remote grid: connect_over_cdp
\* and new_context(record_video_dir=...); either call may raise
SetupRemote ==
    /\ phase = "start"
    /\ AcquireVia(selenoid_url) = "connect_over_cdp"
    /\ launcher' = BrowserLauncher(browser_type)
    /\ browser_name' = SelenoidBrowserName(browser_type)
    /\ endpoint' = CdpEndpoint(selenoid_url, browser_name', browser_version)
    /\ \E r \in {"ok", "connect_raises", "new_context_raises"} :
          /\ browser' = IF r = "connect_raises" THEN browser
                        ELSE [state |-> "open", via |-> "connect_over_cdp",
                              channel |-> "none"]
          /\ context' = IF r = "ok"
                        THEN [state |-> "open", record_video |-> TRUE]
                        ELSE context
          /\ fixture_events' = fixture_events \o
                CASE r = "connect_raises" ->
                        << FixtureEvent("connect_over_cdp raises", launcher') >>
                  [] r = "new_context_raises" ->
                        << FixtureEvent("connect_over_cdp", launcher'),
                           FixtureEvent("new_context raises", "browser") >>
                  [] r = "ok" ->
                        << FixtureEvent("connect_over_cdp", launcher'),
                           FixtureEvent("new_context", "browser") >>
          /\ phase' = IF r = "ok" THEN "ready" ELSE "setup_error"
    /\ UNCHANGED <<Config, Exec, browser_type, selenoid_url, browser_version,
                   storage, pages>>

\* browser_context up to its yield, locally: launch (channel msedge for
\* edge) and new_context; either call may raise
SetupLocal ==
    /\ phase = "start"
    /\ AcquireVia(selenoid_url) = "launch"
    /\ launcher' = BrowserLauncher(browser_type)
    /\ \E r \in {"ok", "launch_raises", "new_context_raises"} :
          /\ browser' = IF r = "launch_raises" THEN browser
                        ELSE [state |-> "open", via |-> "launch",
                              channel |-> IF browser_type = "edge"
                                          THEN "msedge" ELSE "none"]
          /\ context' = IF r = "ok"
                        THEN [state |-> "open", record_video |-> FALSE]
                        ELSE context
          /\ fixture_events' = fixture_events \o
                CASE r = "launch_raises" ->
                        << FixtureEvent("launch raises", launcher') >>
                  [] r = "new_context_raises" ->
                        << FixtureEvent("launch", launcher'),
                           FixtureEvent("new_context raises", "browser") >>
                  [] r = "ok" ->
                        << FixtureEvent("launch", launcher'),
                           FixtureEvent("new_context", "browser") >>
          /\ phase' = IF r = "ok" THEN "ready" ELSE "setup_error"
    /\ UNCHANGED <<Config, Exec, browser_type, selenoid_url, browser_version,
                   browser_name, endpoint, storage, pages>>

\* the page fixture up to its yield: a test starts
PageSetup ==
    /\ phase = "ready"
    /\ Len(pages) < MaxTests
    /\ pages' = Append(pages, NewPage(Len(pages) + 1, wait_strategy))
    /\ fixture_events' = Append(fixture_events, FixtureEvent("new_page", "context"))
    /\ phase' = "in_test"
    /\ UNCHANGED <<Config, Exec, browser_type, selenoid_url, browser_version,
                   launcher, browser_name, endpoint, browser, context, storage>>

\* the running test drives its page and the application stores a cookie
\* (as a login does); the cookie lands in the page's browser context
TestStoresCookie ==
    /\ phase = "in_test"
    /\ \E c \in CookieNames :
          /\ [name |-> c, by |-> Len(pages)] \notin storage
          /\ storage' = storage \cup {[name |-> c, by |-> Len(pages)]}
    /\ UNCHANGED <<Config, Exec, browser_type, selenoid_url, browser_version,
                   phase, launcher, browser_name, endpoint, browser, context,
                   pages, fixture_events>>

\* the page fixture after its yield: the test is over, page.close()
PageTeardown ==
    /\ phase = "in_test"
    /\ pages' = [pages EXCEPT ![Len(pages)] = ClosePage(@)]
    /\ fixture_events' = Append(fixture_events, FixtureEvent("close", "page"))
    /\ phase' = "ready"
    /\ UNCHANGED <<Config, Exec, browser_type, selenoid_url, browser_version,
                   launcher, browser_name, endpoint, browser, context, storage>>

\* the statements of browser_context after its yield, in program order
TeardownOrderBrowserFirst == << "browser", "context" >>
TeardownOrder == << "context", "browser" >>

\* browser_context after its yield, at the end of the session:
\* context.close() and then browser.close(). Nothing guards the two calls:
\* when the first one raises, the second one is not made.
TeardownBrowserContext ==
    /\ phase = "ready"
    /\ pages # << >>
    /\ \E r \in {"ok", "first_close_raises"} :
          LET first == TeardownOrder[1]
              second == TeardownOrder[2]
              closed == IF r = "ok" THEN {first, second} ELSE {}
          IN  /\ context' = IF "context" \in closed
                            THEN [context EXCEPT !.state = "closed"]
                            ELSE context
              /\ browser' = IF "browser" \in closed
                            THEN [browser EXCEPT !.state = "closed"]
                            ELSE browser
              /\ fixture_events' = fixture_events \o
                    IF r = "ok"
                    THEN << FixtureEvent("close", first),
                            FixtureEvent("close", second) >>
                    ELSE << FixtureEvent("close raises", first) >>
              /\ phase' = IF r = "ok" THEN "closed" ELSE "teardown_error"
    /\ UNCHANGED <<Config, Exec, browser_type, selenoid_url, browser_version,
                   launcher, browser_name, endpoint, storage, pages>>

SessionNext ==
    \/ SetupRemote
    \/ SetupLocal
    \/ PageSetup
    \/ TestStoresCookie
    \/ PageTeardown
    \/ TeardownBrowserContext

SessionSpec == SessionInit /\ [][SessionNext]_vars

(***************************************************************************)
(* logging_config.configure_logging                                        *)
(***************************************************************************)
\* How many times configure_logging is called at most.
MaxConfigureCalls == 3

\* RotatingFileHandler(maxBytes=2_000_000, backupCount=3)
MaxBytes == 2000000
BackupCount == 3

LevelArgs == {"debug", "INFO"}
LogfileArgs == {None, "session.log"}
Timestamps == {"2026-01-01_10-00-00", "2026-01-01_10-00-01"}

\* level.upper()
Upper(level) ==
    CASE level = "debug" -> "DEBUG"
      [] level = "info" -> "INFO"
      [] OTHER -> level

ConsoleHandler ==
    [kind |-> "StreamHandler", target |-> <<"stdout">>,
     formatter |-> "_ColourFormatter", maxBytes |-> 0, backupCount |-> 0]
FileHandler(filename) ==
    [kind |-> "RotatingFileHandler", target |-> filename,
     formatter |-> "plain", maxBytes |-> MaxBytes, backupCount |-> BackupCount]
\* a handler some other code attached to the root logger
ForeignHandler ==
    [kind |-> "foreign", target |-> << >>, formatter |-> "none",
     maxBytes |-> 0, backupCount |-> 0]

\* if not logfile_path: logs_dir / f"test_{timestamp}.log"
LogfilePath(logfile_path, timestamp) ==
    IF logfile_path = None THEN <<"logs", "test_", timestamp, ".log">>
    ELSE <<logfile_path>>

\* if root_logger.handlers: return    (already configured)
AlreadyConfiguredNever(root) == FALSE
AlreadyConfigured(root) == root.handlers # NoHandlers

\* the body of configure_logging after the guard
Configured(root, level, logfile_path, enable_console, timestamp) ==
    [level |-> Upper(level),
     handlers |-> root.handlers
                    \o (IF enable_console THEN <<ConsoleHandler>> ELSE << >>)
                    \o <<FileHandler(LogfilePath(logfile_path, timestamp))>>,
     captureWarnings |-> TRUE,
     logs_dir |-> TRUE]

LoggingInit ==
    /\ root_logger \in {UnconfiguredRoot,
                        [UnconfiguredRoot EXCEPT !.handlers = <<ForeignHandler>>]}
    /\ configure_calls = << >>
    /\ files = << >>
    /\ loads = << >>
    /\ IdleSession
    /\ entry = "none"
    /\ retries = DefaultRetries
    /\ base_delay = DefaultBaseDelay
    /\ url = "http://app"
    /\ path = ""
    /\ wait_strategy = "networkidle"
    /\ stack = << >>
    /\ trace = << >>
    /\ log = << >>
    /\ outcome = NoOutcome
    /\ remember_me = FALSE
    /\ login_remember_me = FALSE

\* configure_logging(level=..., logfile_path=..., enable_console=...)
ConfigureLogging ==
    /\ Len(configure_calls) < MaxConfigureCalls
    /\ \E level \in LevelArgs, logfile_path \in LogfileArgs,
          enable_console \in BOOLEAN, timestamp \in Timestamps :
          /\ logfile_path # None => timestamp = "2026-01-01_10-00-00"
          /\ root_logger' =
                IF AlreadyConfigured(root_logger) THEN root_logger
                ELSE Configured(root_logger, level, logfile_path,
                                enable_console, timestamp)
          /\ configure_calls' = Append(configure_calls,
                [level |-> level, logfile_path |-> logfile_path,
                 enable_console |-> enable_console, timestamp |-> timestamp,
                 before |-> root_logger, after |-> root_logger'])
    /\ UNCHANGED <<PageConfig, Session, Exec, files, loads>>

LoggingNext == ConfigureLogging

LoggingSpec == LoggingInit /\ [][LoggingNext]_vars

(***************************************************************************)
(* utils/data_loader: load_json, load_yaml, load_csv                       *)
(***************************************************************************)
\* How many loader calls are made at most.
MaxLoads == 2

Filenames == {"users.json", "users.yaml", "nope.json"}
FileStates == {"absent", "valid", "malformed"}

\* DATA_DIR = Path("test_data")
DataDir == "test_data"

\* filepath = DATA_DIR / filename
FilePath(filename) == <<DataDir, filename>>

\* filepath.exists()
ExistsAlways(fs, filepath) == TRUE
Exists(fs, filepath) == fs[filepath[2]] # "absent"

Raised(type, msg) == [kind |-> "raised", type |-> type, msg |-> msg, data |-> None]
Returned(data) == [kind |-> "returned", type |-> "none", msg |-> << >>, data |-> data]

\* json.load / yaml.safe_load / list(csv.DictReader) / list(csv.reader) on
\* the content of an opened file; csv.reader takes its file positionally, so
\* the keyword call of the as_dict=False branch is a TypeError
Parse(loader, content, as_dict) ==
    CASE loader = "load_json" ->
            IF content = "valid" THEN Returned("json data")
            ELSE Raised("JSONDecodeError", << >>)
      [] loader = "load_yaml" ->
            IF content = "valid" THEN Returned("yaml data")
            ELSE Raised("YAMLError", << >>)
      [] loader = "load_csv" ->
            IF as_dict THEN Returned("rows as dicts")
            ELSE Raised("TypeError", << >>)  \* csv.reader(csvfile=file)

\* one call of a loader: the missing-file guard, then open and parse
LoadFile(loader, filename, as_dict) ==
    LET filepath == FilePath(filename) IN
    IF ~Exists(files, filepath)
    THEN [loader |-> loader, filename |-> filename, as_dict |-> as_dict,
          opened |-> FALSE, parsed |-> FALSE,
          result |-> Raised("FileNotFoundError",
                            <<"Test data file not found: ", filepath>>)]
    ELSE IF files[filename] = "absent"
    THEN [loader |-> loader, filename |-> filename, as_dict |-> as_dict,
          opened |-> TRUE, parsed |-> FALSE,
          result |-> Raised("FileNotFoundError",
                            <<"[Errno 2] No such file or directory: ", filepath>>)]
    ELSE [loader |-> loader, filename |-> filename, as_dict |-> as_dict,
          opened |-> TRUE, parsed |-> TRUE,
          result |-> Parse(loader, files[filename], as_dict)]

LoaderInit ==
    /\ files \in [Filenames -> FileStates]
    /\ loads = << >>
    /\ root_logger = UnconfiguredRoot
    /\ configure_calls = << >>
    /\ IdleSession
    /\ entry = "none"
    /\ retries = DefaultRetries
    /\ base_delay = DefaultBaseDelay
    /\ url = "http://app"
    /\ path = ""
    /\ wait_strategy = "networkidle"
    /\ stack = << >>
    /\ trace = << >>
    /\ log = << >>
    /\ outcome = NoOutcome
    /\ remember_me = FALSE
    /\ login_remember_me = FALSE

LoadJson ==
    /\ Len(loads) < MaxLoads
    /\ \E filename \in Filenames :
          loads' = Append(loads, LoadFile("load_json", filename, TRUE))
    /\ UNCHANGED <<PageConfig, Session, Exec, root_logger, configure_calls, files>>

LoadYaml ==
    /\ Len(loads) < MaxLoads
    /\ \E filename \in Filenames :
          loads' = Append(loads, LoadFile("load_yaml", filename, TRUE))
    /\ UNCHANGED <<PageConfig, Session, Exec, root_logger, configure_calls, files>>

LoadCsv ==
    /\ Len(loads) < MaxLoads
    /\ \E filename \in Filenames, as_dict \in BOOLEAN :
          loads' = Append(loads, LoadFile("load_csv", filename, as_dict))
    /\ UNCHANGED <<PageConfig, Session, Exec, root_logger, configure_calls, files>>

LoaderNext ==
    \/ LoadJson
    \/ LoadYaml
    \/ LoadCsv

LoaderSpec == LoaderInit /\ [][LoaderNext]_vars

\* The executor keeps running while a step is enabled (one thread per test).
FairSpec == Spec /\ WF_vars(Next)

(***************************************************************************)
(* Reading the trace                                                       *)
(***************************************************************************)
Idx == 1 .. Len(trace)
AttemptIdx(fn) == {i \in Idx : trace[i].ev = "attempt" /\ trace[i].name = fn}
SleepIdx(fn) == {i \in Idx : trace[i].ev = "sleep" /\ trace[i].name = fn}
FailIdx(name) == {i \in Idx : trace[i].ev = "fail" /\ trace[i].name = name}
OkIdx(name) == {i \in Idx : trace[i].ev = "ok" /\ trace[i].name = name}
IsSleep(e) == e.ev = "sleep"
SleepDelays == [i \in 1 .. Len(SelectSeq(trace, IsSleep)) |->
                   SelectSeq(trace, IsSleep)[i].n]
IsPrim(e) == e.ev \in {"ok", "fail"}
PrimResults == [i \in 1 .. Len(SelectSeq(trace, IsPrim)) |->
                   SelectSeq(trace, IsPrim)[i].ev]
\* the attempt number of the attempt of fn that is running at trace index i
AttemptAt(fn, i) ==
    LET before == {j \in AttemptIdx(fn) : j < i} IN
    IF before = {} THEN 0
    ELSE trace[CHOOSE j \in before : \A k \in before : k <= j].n
GenericCall == entry = "action" /\ retries >= 1
Finished == outcome.kind # "none"

(***************************************************************************)
(* C1: with maxAttempts = n >= 1, an action that fails on every attempt is *)
(* invoked exactly n times, the executor sleeps exactly n-1 times (never   *)
(* after the last failed attempt), and only then is the failure raised.    *)
(***************************************************************************)
C1_AlwaysFailingAttemptedNTimes ==
    (GenericCall /\ OkIdx("func") = {}) =>
        /\ Cardinality(AttemptIdx("action")) <= retries
        /\ Cardinality(SleepIdx("action")) <= retries - 1
        /\ Cardinality(SleepIdx("action")) <= Cardinality(FailIdx("func"))
        /\ outcome.kind # "returned"
        /\ Finished =>
              /\ outcome.kind = "raised"
              /\ Cardinality(AttemptIdx("action")) = retries
              /\ Cardinality(FailIdx("func")) = retries
              /\ Cardinality(SleepIdx("action")) = retries - 1
              /\ trace[Len(trace)].ev = "fail"
        /\ ~Finished => Cardinality(FailIdx("func")) <= retries

C1_Witness ==
    /\ entry = "action" /\ retries = 3
    /\ outcome.kind = "raised"
    /\ Cardinality(FailIdx("func")) = 3
    /\ Cardinality(SleepIdx("action")) = 2

(***************************************************************************)
(* C2: the sleep performed immediately before attempt k (2 <= k <=         *)
(* maxAttempts) is exactly baseDelay * 2^(k-2); with maxAttempts = 3 and   *)
(* baseDelay = 1 an action that fails twice and then succeeds sleeps       *)
(* exactly twice, 1 and then 2.                                            *)
(***************************************************************************)
C2_BackoffBeforeAttemptK ==
    /\ \A i \in Idx :
          (trace[i].ev = "attempt" /\ trace[i].n >= 2) =>
              /\ i > 1
              /\ trace[i - 1] =
                    Event("sleep", trace[i].name, "",
                          BaseDelay(trace[i].name) * Pow2(trace[i].n - 2), None)
    /\ \A i \in Idx :
          trace[i].ev = "sleep" =>
              trace[i].n = BaseDelay(trace[i].name)
                              * Pow2(AttemptAt(trace[i].name, i) - 1)
    /\ (/\ entry = "action" /\ retries = 3 /\ base_delay = 1
        /\ outcome.kind = "returned"
        /\ PrimResults = <<"fail", "fail", "ok">>) => SleepDelays = <<1, 2>>

C2_Witness ==
    /\ entry = "action" /\ retries = 3 /\ base_delay = 1
    /\ outcome.kind = "returned"
    /\ PrimResults = <<"fail", "fail", "ok">>
    /\ SleepDelays = <<1, 2>>

(***************************************************************************)
(* C3: if the action first succeeds on attempt k <= maxAttempts, the       *)
(* wrapper returns that attempt's result unchanged, there is no (k+1)-th   *)
(* attempt and no sleep after the success (k-1 sleeps in all).             *)
(***************************************************************************)
C3_SuccessStopsRetrying ==
    (GenericCall /\ OkIdx("func") # {}) =>
        /\ OkIdx("func") = {Len(trace)}
        /\ Cardinality(FailIdx("func")) + 1 = Cardinality(AttemptIdx("action"))
        /\ Cardinality(AttemptIdx("action")) <= retries
        /\ Cardinality(SleepIdx("action")) = Cardinality(AttemptIdx("action")) - 1
        /\ outcome.kind # "raised"
        /\ Finished => outcome = [kind |-> "returned",
                                  val |-> trace[Len(trace)].val,
                                  exc |-> NoExc]

C3_Witness ==
    /\ GenericCall
    /\ outcome.kind = "returned"
    /\ outcome.val = "r2"
    /\ Cardinality(AttemptIdx("action")) = 2
    /\ Cardinality(SleepIdx("action")) = 1
    /\ trace[Len(trace)] = Event("ok", "func", "", 0, "r2")

\* the exception raised at the last failed step of the trace
LastFailure ==
    LET fails == {i \in Idx : trace[i].ev = "fail"}
        last == CHOOSE i \in fails : \A k \in fails : k <= i
    IN  [type |-> trace[last].val, src |-> trace[last].name, at |-> last]

(***************************************************************************)
(* C4 as claimed: when all attempts fail, the caller gets one aggregated   *)
(* retry-exhausted failure that wraps the last attempt's error, not the    *)
(* bare original error.                                                    *)
(***************************************************************************)
C4_AggregatedRetryExhausted ==
    outcome.kind = "raised" =>
        /\ outcome.exc.type = "RetryExhausted"
        /\ outcome.exc # LastFailure

(***************************************************************************)
(* C4 as amended: when all attempts fail, the caller gets the bare error   *)
(* of the last attempt, re-raised unchanged; the action name and the       *)
(* attempt count are only written to the log, in the error record that     *)
(* follows the last attempt's warning.                                     *)
(***************************************************************************)
C4_BareLastErrorReraised ==
    (entry \in DecoratedMethods /\ outcome.kind = "raised") =>
        /\ outcome.exc = LastFailure
        /\ outcome.exc.type \in ActionErrors \cup {"TimeoutError", "ValueError"}
        /\ Len(log) >= 2
        /\ log[Len(log)] = LogRec("error", "Action failed after attempts",
                                  entry, Retries(entry), NoExc)
        /\ log[Len(log) - 1] = LogRec("warning", "Attempt failed", "",
                                      Retries(entry), outcome.exc)

C4_Witness ==
    /\ entry = "action" /\ retries = 2
    /\ outcome.kind = "raised"
    /\ outcome.exc = [type |-> "E2", src |-> "func", at |-> 5]
    /\ trace[2].val = "E1"
    /\ log[Len(log)].level = "error"

(***************************************************************************)
(* C5 as claimed: a load-state timeout in wait_until_loaded is never       *)
(* retried: after the first one there is no further load-state wait, no    *)
(* further navigation attempt and no backoff sleep, and it reaches the     *)
(* test as a NavigationTimeout.                                            *)
(***************************************************************************)
C5_ReadinessTimeoutNotRetried ==
    /\ \A i \in FailIdx("wait_for_load_state") : \A j \in Idx :
          j > i => /\ trace[j].ev \notin {"sleep", "attempt"}
                   /\ trace[j].name \notin {"wait_for_load_state", "goto"}
    /\ (outcome.kind = "raised" /\ outcome.exc.src = "wait_for_load_state")
          => outcome.exc.type = "NavigationTimeout"

(***************************************************************************)
(* C5 as amended: a load-state timeout is retried like any other failure.  *)
(* A timeout in attempt k < 3 of wait_until_loaded is followed by a sleep  *)
(* of 2^(k-1) s and attempt k+1; a timeout in attempt 3 fails the calling  *)
(* navigate / click attempt, which is retried the same way; the test sees  *)
(* the load-state wait's own TimeoutError, and only after 3 attempts of    *)
(* the called method whose last one made 3 attempts of wait_until_loaded.  *)
(***************************************************************************)
C5_ReadinessTimeoutIsRetried ==
    entry \in {"navigate", "click_element_and_wait_for_navigation"} =>
    /\ \A i \in FailIdx("wait_for_load_state") :
          LET k == AttemptAt("wait_until_loaded", i)
              m == AttemptAt(entry, i)
          IN  /\ k \in 1 .. DefaultRetries
              /\ (k < DefaultRetries /\ i + 2 <= Len(trace)) =>
                    /\ trace[i + 1] = Event("sleep", "wait_until_loaded", "",
                                            Pow2(k - 1), None)
                    /\ trace[i + 2] = Event("attempt", "wait_until_loaded", "",
                                            k + 1, None)
              /\ (k = DefaultRetries /\ m < DefaultRetries
                    /\ i + 2 <= Len(trace)) =>
                    /\ trace[i + 1] = Event("sleep", entry, "", Pow2(m - 1), None)
                    /\ trace[i + 2] = Event("attempt", entry, "", m + 1, None)
              /\ (Finished /\ (k < DefaultRetries \/ m < DefaultRetries))
                    => i + 2 <= Len(trace)
    /\ (outcome.kind = "raised" /\ outcome.exc.src = "wait_for_load_state") =>
          /\ outcome.exc.type = "TimeoutError"
          /\ AttemptAt(entry, Len(trace)) = DefaultRetries
          /\ AttemptAt("wait_until_loaded", Len(trace)) = DefaultRetries
          /\ Cardinality(FailIdx("wait_for_load_state")) >= DefaultRetries

C5_Witness ==
    /\ entry = "navigate"
    /\ outcome.kind = "raised"
    /\ outcome.exc.src = "wait_for_load_state"
    /\ Cardinality(FailIdx("wait_for_load_state")) = 9
    /\ Cardinality(OkIdx("goto")) = 3

(***************************************************************************)
(* C6: with no target URL configured and an empty path, navigate's "No URL *)
(* provided" error reaches the caller after exactly one attempt, with no   *)
(* backoff sleep and without page.goto having been called.                 *)
(***************************************************************************)
C6_ConfigErrorFailsFast ==
    (entry = "navigate" /\ FullUrl(url, path) = "" /\ Finished) =>
        /\ outcome.kind = "raised"
        /\ outcome.exc.type = "ValueError"
        /\ Cardinality(AttemptIdx("navigate")) = 1
        /\ SleepDelays = << >>
        /\ OkIdx("goto") \cup FailIdx("goto") = {}

(***************************************************************************)
(* C7: for every configured readiness strategy s, the readiness wait after *)
(* navigate or click_element_and_wait_for_navigation waits on the signal s *)
(* and on no other load-state signal.                                      *)
(***************************************************************************)
C7_WaitsOnConfiguredStrategy ==
    \A i \in Idx :
        trace[i].name = "wait_for_load_state" => trace[i].arg = wait_strategy

\* The state of the executor for the call the test made (the outermost frame).
ExecState ==
    IF outcome.kind = "returned" THEN "SUCCESS"
    ELSE IF outcome.kind = "raised" THEN "FAILED_TERMINAL"
    ELSE CASE stack[1].pc = "loop" -> "PENDING"
           [] stack[1].pc = "body" -> "ATTEMPT"
           [] stack[1].pc = "except" -> "FAILED_TRANSIENT"
           [] stack[1].pc = "sleep" -> "BACKOFF"
Terminal == ExecState \in {"SUCCESS", "FAILED_TERMINAL"}
ExecTransitions ==
    { <<"PENDING", "ATTEMPT">>, <<"ATTEMPT", "ATTEMPT">>,
      <<"ATTEMPT", "SUCCESS">>, <<"ATTEMPT", "FAILED_TRANSIENT">>,
      <<"FAILED_TRANSIENT", "BACKOFF">>, <<"BACKOFF", "PENDING">>,
      <<"FAILED_TRANSIENT", "FAILED_TERMINAL">> }
\* the test called a decorated method, with a policy of at least one attempt
PolicyValid == entry \in DecoratedMethods /\ Retries(entry) >= 1

(***************************************************************************)
(* C9: with maxAttempts >= 1 and attempts that terminate, every call of    *)
(* the executor moves PENDING -> attempt -> SUCCESS | FAILED_TRANSIENT ->  *)
(* backoff -> PENDING | FAILED_TERMINAL, eventually reaches a terminal     *)
(* state after at most maxAttempts attempts, and makes no attempt and no   *)
(* sleep once it is terminal.                                              *)
(***************************************************************************)
C9_ExecutorTerminates ==
    /\ [][PolicyValid => <<ExecState, ExecState'>> \in ExecTransitions]_vars
    /\ [][(PolicyValid /\ Terminal) =>
              (trace' = trace /\ ExecState' = ExecState)]_vars
    /\ [](PolicyValid => Cardinality(AttemptIdx(entry)) <= Retries(entry))
    /\ PolicyValid ~> Terminal

C9_Witness ==
    /\ entry = "action" /\ retries = 3
    /\ ExecState = "FAILED_TERMINAL"
    /\ Cardinality(AttemptIdx("action")) = 3
    /\ SleepDelays = <<base_delay, 2 * base_delay>>

PageIdx == 1 .. Len(pages)
\* the test that is running owns the last page
CurrentTest == Len(pages)

(***************************************************************************)
(* C8 as claimed: each test gets a freshly created page that is closed at  *)
(* the end of that test, and no browser state created by one test, the     *)
(* cookies and storage of the browser context included, is visible to a    *)
(* later test.                                                             *)
(***************************************************************************)
C8_NoStateCrossesTests ==
    /\ \A i \in PageIdx :
          /\ pages[i].id = i
          /\ pages[i].state = "open" <=> (i = CurrentTest /\ phase = "in_test")
          /\ pages[i].inherited = {}
    /\ phase = "in_test" => \A c \in storage : c.by = CurrentTest

(***************************************************************************)
(* C8 as amended: each test gets a freshly created page that is closed at  *)
(* the end of that test; the browser context the pages are created from is *)
(* created once per session and shared, so the cookies and storage stored  *)
(* during one test stay in the context and are visible to the page of      *)
(* every later test.                                                       *)
(***************************************************************************)
C8_FreshPageSharedContext ==
    /\ \A i \in PageIdx :
          /\ pages[i].id = i
          /\ pages[i].state = "open" <=> (i = CurrentTest /\ phase = "in_test")
          /\ pages[i].inherited = {c \in storage : c.by < i}
    /\ \A c \in storage : c.by \in PageIdx
    /\ Cardinality({k \in 1 .. Len(fixture_events) :
                       fixture_events[k].call = "new_context"}) <= 1
    /\ pages # << >> => context.state # "none"

C8_Witness ==
    /\ phase = "in_test"
    /\ CurrentTest = 2
    /\ pages[1].state = "closed"
    /\ pages[2].state = "open"
    /\ [name |-> "session_id", by |-> 1] \in pages[2].inherited

\* Chrome and Edge are the Chromium-family browsers of a Selenoid grid.
BrowserFamily(name) == IF name \in {"chrome", "edge"} THEN "chromium" ELSE name

(***************************************************************************)
(* C10: with a remote-grid URL, edge and webkit are both mapped onto the   *)
(* Chromium driver (the Chromium launcher makes the remote connection and  *)
(* a Chromium-family browser is requested); chromium and firefox map to    *)
(* themselves.                                                             *)
(***************************************************************************)
C10_RemoteEdgeWebkitOnChromium ==
    (selenoid_url # << >> /\ phase \notin {"idle", "start"}) =>
        /\ browser_type \in {"edge", "webkit", "chromium"} =>
              /\ launcher = "chromium"
              /\ BrowserFamily(browser_name) = "chromium"
        /\ browser_type = "firefox" =>
              /\ launcher = "firefox"
              /\ browser_name = "firefox"

FixtureCalls(call) ==
    {k \in 1 .. Len(fixture_events) : fixture_events[k].call = call}
SetupDone == phase \in {"ready", "in_test", "closed", "teardown_error"}

LogIdx == 1 .. Len(log)
IsAttemptStart(r) == r.msg = "Attempt"
IsAttemptEvent(e) == e.ev = "attempt"
IsAttemptFailed(r) == r.msg = "Attempt failed"
\* the messages that would record how an attempt ended
OutcomeMsgs == {"Attempt failed", "Attempt succeeded"}

(***************************************************************************)
(* C14 as stated: every attempt made by the retry executor, successful or  *)
(* failed, has a log entry recording its attempt number, the action name   *)
(* and its outcome.                                                        *)
(***************************************************************************)
C14_EveryAttemptLogsOutcome ==
    (GenericCall /\ Finished) =>
        \A i \in AttemptIdx("action") :
            \E j \in LogIdx :
                /\ log[j].msg \in OutcomeMsgs
                /\ log[j].name = "action"
                /\ log[j].n = trace[i].n

(***************************************************************************)
(* C14 amended: every attempt logs, before the action runs, an info entry  *)
(* with its attempt number and the action name; a failed attempt also logs *)
(* a warning with the attempt number and the error but without the action  *)
(* name, followed by an entry ("Retrying action" or "failed after") that   *)
(* carries the name; a successful attempt logs nothing after its start     *)
(* entry, so success has no logged outcome.                                *)
(***************************************************************************)
C14_AttemptLogsStartAndFailure ==
    LET starts == SelectSeq(log, IsAttemptStart)
        attempts == SelectSeq(trace, IsAttemptEvent)
    IN  /\ Len(starts) = Len(attempts)
        /\ \A k \in 1 .. Len(starts) :
              /\ starts[k].level = "info"
              /\ starts[k].name = attempts[k].name
              /\ starts[k].n = attempts[k].n
              /\ starts[k].exc = NoExc
        /\ \A j \in LogIdx :
              IsAttemptFailed(log[j]) =>
                  /\ log[j].level = "warning"
                  /\ log[j].name = ""
                  /\ log[j].n >= 1
                  /\ log[j].exc # NoExc
                  /\ j < Len(log)
                  /\ log[j + 1].msg \in {"Retrying action",
                                         "Action failed after attempts"}
                  /\ log[j + 1].name # ""
        /\ \A j \in LogIdx : log[j].msg # "Attempt succeeded"
        /\ (GenericCall /\ Finished) =>
              Len(SelectSeq(log, IsAttemptFailed)) = Cardinality(FailIdx("func"))
        /\ (GenericCall /\ outcome.kind = "returned") =>
              log[Len(log)] =
                  LogRec("info", "Attempt", "action",
                         Cardinality(AttemptIdx("action")), NoExc)

C14_Witness ==
    /\ entry = "action" /\ retries = 3
    /\ outcome.kind = "returned"
    /\ Cardinality(FailIdx("func")) = 2
    /\ Len(SelectSeq(log, IsAttemptFailed)) = 2
    /\ Len(SelectSeq(log, IsAttemptStart)) = 3
    /\ log[Len(log)].msg = "Attempt"

(***************************************************************************)
(* Page-object calls with exactly one failing library call                 *)
(***************************************************************************)
AllFailIdx == {i \in Idx : trace[i].ev = "fail"}
TheFailure == CHOOSE i \in AllFailIdx : TRUE
OneTransientFailure ==
    /\ entry # "action"
    /\ Finished
    /\ Cardinality(AllFailIdx) = 1
ExpectMethods == {"expect_visible", "expect_hidden", "expect_text",
                  "expect_value", "expect_attribute", "expect_count"}
\* the failing library call was issued outside every retry wrapper
FailedUnwrapped ==
    \/ entry \in {"back", "forward", "refresh"} \cup ExpectMethods
    \/ entry = "search_content" /\ trace[TheFailure].name \in {"fill", "press"}

(***************************************************************************)
(* C15 as stated: every browser interaction of the base page and of the    *)
(* page objects goes through the retry wrapper, so a single transient      *)
(* failure of any of them is retried and does not reach the caller.        *)
(***************************************************************************)
C15_EveryInteractionRetried ==
    OneTransientFailure => outcome.kind = "returned"

(***************************************************************************)
(* C15 amended: a single transient failure is retried (a backoff sleep     *)
(* follows it and the same library call is issued again and the call       *)
(* returns) for the methods decorated with @retry and for the page-object  *)
(* methods that only call those; BasePage.back / forward / refresh, the    *)
(* expect_* assertions and the fill and key press of                       *)
(* HomePage.search_content are issued outside any wrapper, and their       *)
(* first failure reaches the caller with no retry and no sleep.            *)
(***************************************************************************)
C15_OnlyDecoratedInteractionsRetried ==
    OneTransientFailure =>
        IF FailedUnwrapped
        THEN /\ outcome.kind = "raised"
             /\ outcome.exc.at = TheFailure
             /\ TheFailure = Len(trace)
             /\ \A i \in Idx : trace[i].ev # "sleep"
        ELSE /\ outcome.kind = "returned"
             /\ \E i \in Idx : i > TheFailure /\ trace[i].ev = "sleep"
             /\ \E i \in Idx : /\ i > TheFailure
                               /\ trace[i].ev = "ok"
                               /\ trace[i].name = trace[TheFailure].name
                               /\ trace[i].arg = trace[TheFailure].arg

C15_Witness ==
    /\ entry = "search_content"
    /\ outcome.kind = "raised"
    /\ Len(trace) = 2
    /\ trace[1].ev = "ok" /\ trace[1].name = "fill"
    /\ trace[2].ev = "fail" /\ trace[2].name = "press"

(***************************************************************************)
(* Cancellations and timeouts in the trace                                 *)
(***************************************************************************)
CancelIdx == {i \in Idx : trace[i].ev = "cancel"}
TimeoutIdx == {i \in Idx : trace[i].ev = "fail" /\ trace[i].val = "TimeoutError"}
NoLaterAttemptOrSleep(i) ==
    \A j \in Idx : j > i => trace[j].ev \notin {"attempt", "sleep"}

(***************************************************************************)
(* C16 as stated: a cancellation or a host timeout delivered while the     *)
(* retry executor is inside an attempt or a backoff sleep aborts the retry *)
(* loop: no further attempt is started and no further sleep is performed.  *)
(***************************************************************************)
C16_CancelOrTimeoutAbortsRetry ==
    \A i \in CancelIdx \cup TimeoutIdx : NoLaterAttemptOrSleep(i)

(***************************************************************************)
(* C16 amended: a cancellation that is not an Exception (KeyboardInterrupt)*)
(* raised inside an attempt or inside a backoff sleep aborts the retry     *)
(* loop: nothing is attempted, slept or called after it and the call ends  *)
(* with that cancellation. The only timeout the harness sets, the page's   *)
(* default timeout, surfaces as the library's TimeoutError inside an       *)
(* attempt and is retried like any other failure while attempts remain.    *)
(***************************************************************************)
C16_OnlyCancellationAbortsRetry ==
    /\ \A i \in CancelIdx :
          /\ i = Len(trace)
          /\ stack = << >>
          /\ outcome = [kind |-> "raised", val |-> None,
                        exc |-> [type |-> "KeyboardInterrupt", src |-> "host",
                                 at |-> i]]
    /\ \A i \in TimeoutIdx :
          (/\ entry \in DecoratedMethods \ {"action"}
           /\ AttemptAt(entry, i) < DefaultRetries
           /\ i < Len(trace))
             => trace[i + 1].ev \in {"sleep", "cancel"}
    /\ \A i \in TimeoutIdx :
          (/\ entry \in DecoratedMethods \ {"action"}
           /\ AttemptAt(entry, i) < DefaultRetries
           /\ Finished
           /\ CancelIdx = {})
             => /\ i + 2 <= Len(trace)
                /\ trace[i + 1].ev = "sleep"
                /\ trace[i + 2].ev = "attempt"

C16_Witness ==
    /\ entry = "navigate"
    /\ trace # << >>
    /\ trace[Len(trace)] =
          Event("cancel", "wait_until_loaded", "sleep", 2, "KeyboardInterrupt")
    /\ Cardinality(AttemptIdx("navigate")) = 2
    /\ outcome.kind = "raised"

\* the value the last successful library call `name` returned
LastOk(name) ==
    trace[CHOOSE i \in OkIdx(name) : \A k \in OkIdx(name) : k <= i].val

(***************************************************************************)
(* C17: LoginPage.get_error_message returns the empty string whenever the  *)
(* error-message element is not visible, and then never reads the          *)
(* element's text; when the element is visible it returns the element's    *)
(* text, or the empty string if the text is null.                          *)
(***************************************************************************)
C17_GetErrorMessage ==
    entry = "get_error_message" =>
        /\ (OkIdx("text_content") \cup FailIdx("text_content") # {}) =>
              /\ OkIdx("is_visible") # {}
              /\ LastOk("is_visible") = "True"
        /\ outcome.kind = "returned" =>
              /\ OkIdx("is_visible") # {}
              /\ LastOk("is_visible") = "False" =>
                    /\ outcome.val = ""
                    /\ OkIdx("text_content") \cup FailIdx("text_content") = {}
              /\ LastOk("is_visible") = "True" =>
                    /\ OkIdx("text_content") # {}
                    /\ outcome.val = IF LastOk("text_content") = None THEN ""
                                     ELSE LastOk("text_content")
                    /\ outcome.val # None

C17_Witness ==
    /\ entry = "get_error_message"
    /\ outcome = [kind |-> "returned", val |-> "", exc |-> NoExc]
    /\ trace = << Event("attempt", "is_visible", "", 1, None),
                  Event("ok", "is_visible", "", 0, "False") >>

(***************************************************************************)
(* C18: LoginPage.toggle_remember_me toggles the remember-me checkbox:     *)
(* called when the box is unchecked it leaves it checked, and called when  *)
(* the box is checked it leaves it unchecked.                              *)
(***************************************************************************)
C18_ToggleFlipsCheckbox ==
    (entry = "toggle_remember_me" /\ outcome.kind = "returned") =>
        /\ OkIdx("is_checked") # {}
        /\ LastOk("is_checked") = "False" => remember_me
        /\ LastOk("is_checked") = "True" => ~remember_me

\* wait_until_loaded never got through both of its load-state waits
WaitAlwaysFails ==
    {i \in OkIdx("wait_for_load_state") : trace[i].arg = "networkidle"} = {}
\* the library calls made before wait_until_loaded never failed
LeadingCallsSucceed ==
    /\ FailIdx("goto") = {}
    /\ FailIdx("click") = {}
    /\ FailIdx("expect_navigation") = {}
    /\ FailIdx("full_url") = {}
NestedSleeps == <<1, 2, 1, 1, 2, 2, 1, 2>>

(***************************************************************************)
(* C19: retry wrappers nest multiplicatively. In one call of navigate with *)
(* the default policy where page.goto always succeeds and the load-state   *)
(* wait always fails, page.goto is issued exactly 3 times,                 *)
(* wait_until_loaded's body is attempted exactly 9 times and 8 backoff     *)
(* sleeps occur (1, 2 inside each of the three navigate attempts, and 1    *)
(* and 2 between them) before the error reaches the caller; the same holds *)
(* for click_element_and_wait_for_navigation, whose click is issued 3      *)
(* times.                                                                  *)
(***************************************************************************)
C19_RetriesNestMultiplicatively ==
    (/\ entry \in {"navigate", "click_element_and_wait_for_navigation"}
     /\ Finished
     /\ LeadingCallsSucceed
     /\ WaitAlwaysFails) =>
        /\ outcome.kind = "raised"
        /\ outcome.exc.src = "wait_for_load_state"
        /\ outcome.exc.at = Len(trace)
        /\ Cardinality(AttemptIdx(entry)) = 3
        /\ Cardinality(AttemptIdx("wait_until_loaded")) = 9
        /\ Cardinality(FailIdx("wait_for_load_state")) = 9
        /\ SleepDelays = NestedSleeps
        /\ Cardinality(SleepIdx("wait_until_loaded")) = 6
        /\ Cardinality(SleepIdx(entry)) = 2
        /\ entry = "navigate" => Cardinality(OkIdx("goto")) = 3
        /\ entry = "click_element_and_wait_for_navigation" =>
              /\ Cardinality(OkIdx("click")) = 3
              /\ Cardinality(OkIdx("expect_navigation")) = 3

C19_Witness ==
    /\ entry = "click_element_and_wait_for_navigation"
    /\ outcome.kind = "raised"
    /\ LeadingCallsSucceed
    /\ WaitAlwaysFails
    /\ Cardinality(OkIdx("click")) = 3
    /\ Cardinality(AttemptIdx("wait_until_loaded")) = 9
    /\ SleepDelays = NestedSleeps

(***************************************************************************)
(* C20: the retry decorator does not enforce maxAttempts >= 1. For any     *)
(* retries <= 0 the wrapped call never invokes the action, performs no     *)
(* sleep, logs and raises no error and returns None, which is exactly what *)
(* the caller gets from a successful action that returned None.            *)
(***************************************************************************)
C20_NoAttemptReturnsNone ==
    (entry = "action" /\ retries <= 0) =>
        /\ trace = << >>
        /\ log = << >>
        /\ outcome.kind # "raised"
        /\ Finished =>
              /\ outcome = [kind |-> "returned", val |-> None, exc |-> NoExc]
              /\ stack = << >>

C20_Witness ==
    /\ entry = "action"
    /\ retries = 0
    /\ outcome = [kind |-> "returned", val |-> None, exc |-> NoExc]
    /\ trace = << >>

\* a call with a valid policy whose action succeeded with None: the caller
\* receives the same outcome as in C20
C20_SuccessfulNone ==
    /\ entry = "action"
    /\ retries >= 1
    /\ outcome = [kind |-> "returned", val |-> None, exc |-> NoExc]
    /\ trace[Len(trace)] = Event("ok", "func", "", 0, None)

(***************************************************************************)
(* Reading the fixtures' calls                                             *)
(***************************************************************************)
FixtureIdx == 1 .. Len(fixture_events)
ClosesOf(on) ==
    {i \in FixtureIdx : /\ fixture_events[i].on = on
                        /\ fixture_events[i].call \in {"close", "close raises"}}
NewPageCalls == {i \in FixtureIdx : fixture_events[i].call = "new_page"}

(***************************************************************************)
(* C21: in any session, teardown is ordered page -> context -> browser:    *)
(* every page created for a test is closed before the session's browser    *)
(* context is closed, the context is closed before the browser, and no     *)
(* page is created after the context has been closed.                      *)
(***************************************************************************)
C21_TeardownOrder ==
    /\ [](\A c \in ClosesOf("context") :
             /\ \A i \in PageIdx : pages[i].state = "closed"
             /\ Cardinality(ClosesOf("page")) = Len(pages)
             /\ \A i \in ClosesOf("page") \cup NewPageCalls : i < c)
    /\ [](\A b \in ClosesOf("browser") :
             /\ ClosesOf("context") # {}
             /\ \A c \in ClosesOf("context") : c < b)
    /\ [](browser.state = "closed" => context.state = "closed")
    /\ [](context.state = "closed" =>
             \A i \in PageIdx : pages[i].state = "closed")
    /\ [][ClosesOf("context") # {} => pages' = pages]_vars

C21_Witness ==
    /\ phase = "closed"
    /\ Len(pages) = 2
    /\ \A i \in PageIdx : pages[i].state = "closed"
    /\ context.state = "closed"
    /\ browser.state = "closed"
    /\ Len(fixture_events) = 8
    /\ fixture_events[7] = FixtureEvent("close", "context")
    /\ fixture_events[8] = FixtureEvent("close", "browser")

(***************************************************************************)
(* The steps of LoginPage.login in the trace                               *)
(***************************************************************************)
CallsOn(name, arg) ==
    {i \in Idx : /\ trace[i].ev \in {"ok", "fail"}
                 /\ trace[i].name = name
                 /\ trace[i].arg = arg}
OkOn(name, arg) == {i \in CallsOn(name, arg) : trace[i].ev = "ok"}
FailOn(name, arg) == {i \in CallsOn(name, arg) : trace[i].ev = "fail"}
NavigateStep == CallsOn("goto", "")
EmailStep == CallsOn("fill", "#user_email")
PasswordStep == CallsOn("fill", "#user_password")
RememberStep == CallsOn("is_checked", "#user_remember_me")
                    \cup CallsOn("click", "#user_remember_me")
SubmitStep == CallsOn("click", "input[value='Sign in']")
Before(A, B) == \A a \in A, b \in B : a < b
First(A) == CHOOSE a \in A : \A b \in A : a <= b
\* the library call that completed a step, right before the first attempt of
\* the wrapper that starts the step whose first library call is at index i
CompletedBefore(i) == trace[i - 2]
LoadedOk == Event("ok", "wait_for_load_state", "networkidle", 0, None)

(***************************************************************************)
(* C22: LoginPage.login executes its steps strictly in the order navigate, *)
(* fill email, fill password, (remember-me only if requested), submit,     *)
(* each step starting only after the previous one returned successfully;   *)
(* if a step exhausts its retries the error propagates and none of the     *)
(* later steps is executed (submit is never clicked after a failed fill).  *)
(***************************************************************************)
C22_LoginStepsInOrder ==
    entry = "login" =>
        /\ Before(NavigateStep, EmailStep)
        /\ Before(EmailStep, PasswordStep)
        /\ Before(PasswordStep, RememberStep)
        /\ Before(PasswordStep, SubmitStep)
        /\ Before(RememberStep, SubmitStep)
        /\ RememberStep # {} => login_remember_me
        /\ (login_remember_me /\ SubmitStep # {}) =>
              OkOn("is_checked", "#user_remember_me") # {}
        /\ EmailStep # {} =>
              /\ First(EmailStep) > 2
              /\ CompletedBefore(First(EmailStep)) = LoadedOk
              /\ trace[First(EmailStep) - 1] =
                    Event("attempt", "fill_text", "", 1, None)
        /\ PasswordStep # {} =>
              CompletedBefore(First(PasswordStep)) =
                  Event("ok", "fill", "#user_email", 0, None)
        /\ RememberStep # {} =>
              CompletedBefore(First(RememberStep)) =
                  Event("ok", "fill", "#user_password", 0, None)
        /\ SubmitStep # {} =>
              CompletedBefore(First(SubmitStep)) \in
                  IF login_remember_me
                  THEN {Event("ok", "is_checked", "#user_remember_me", 0, "True"),
                        Event("ok", "click", "#user_remember_me", 0, None)}
                  ELSE {Event("ok", "fill", "#user_password", 0, None)}
        /\ Cardinality(FailOn("fill", "#user_email")) = DefaultRetries =>
              /\ PasswordStep \cup RememberStep \cup SubmitStep = {}
              /\ outcome.kind # "returned"
        /\ Cardinality(FailOn("fill", "#user_password")) = DefaultRetries =>
              /\ RememberStep \cup SubmitStep = {}
              /\ outcome.kind # "returned"
        /\ Cardinality(FailOn("goto", "")) = DefaultRetries =>
              /\ EmailStep \cup PasswordStep \cup RememberStep \cup SubmitStep = {}
              /\ outcome.kind # "returned"
        /\ outcome.kind = "raised" =>
              /\ outcome.exc = LastFailure
              /\ outcome.exc.at = Len(trace)
              /\ outcome.exc.src = "fill" => SubmitStep = {}
        /\ outcome.kind = "returned" =>
              /\ OkOn("fill", "#user_email") # {}
              /\ OkOn("fill", "#user_password") # {}
              /\ OkOn("click", "input[value='Sign in']") # {}
              /\ trace[Len(trace)] = LoadedOk
              /\ login_remember_me => remember_me

C22_Witness ==
    /\ entry = "login"
    /\ login_remember_me
    /\ outcome.kind = "raised"
    /\ outcome.exc.src = "fill"
    /\ Cardinality(FailOn("fill", "#user_password")) = 3
    /\ OkOn("fill", "#user_email") # {}
    /\ SubmitStep = {}

====
